---- MODULE Spec2Model ----
(***************************************************************************)
(* Model of v2v-helper/virtv2v/virtv2vops.go: the guest command runners,   *)
(* the bootable-volume resolver, the LVM detector, the NTFS repairer, the  *)
(* disk converter with its driver staging, and the process-wide timing     *)
(* record.  Text is modelled as a sequence of one-character strings, so    *)
(* that trimming, lower-casing, splitting and parsing are computed.        *)
(***************************************************************************)
EXTENDS Integers, Sequences, FiniteSets, TLC

VARIABLES call, ntfs, timings, conv, runs, last, appended

vars == <<call, ntfs, timings, conv, runs, last, appended>>

(***************************************************************************)
(* Text helpers (package strings, unicode, strconv, bufio).                *)
(***************************************************************************)
Upper == <<"A","B","C","D","E","F","G","H","I","J","K","L","M",
           "N","O","P","Q","R","S","T","U","V","W","X","Y","Z">>

Lower == <<"a","b","c","d","e","f","g","h","i","j","k","l","m",
           "n","o","p","q","r","s","t","u","v","w","x","y","z">>

Digits == <<"0","1","2","3","4","5","6","7","8","9">>

Range(s) == {s[i] : i \in DOMAIN s}

IsSpace(c) == c \in {" ", "\t", "\n", "\r", "\f"}

IsLetter(c) == c \in Range(Upper) \cup Range(Lower)

IsDigit(c) == c \in Range(Digits)

DigitVal(c) == (CHOOSE i \in DOMAIN Digits : Digits[i] = c) - 1

ToLowerChar(c) ==
    IF c \in Range(Upper)
    THEN Lower[CHOOSE i \in DOMAIN Upper : Upper[i] = c]
    ELSE c

ToLower(s) == [i \in DOMAIN s |-> ToLowerChar(s[i])]

RECURSIVE TrimLeft(_)
TrimLeft(s) ==
    IF s # <<>> /\ IsSpace(Head(s)) THEN TrimLeft(Tail(s)) ELSE s

RECURSIVE TrimRight(_)
TrimRight(s) ==
    IF s # <<>> /\ IsSpace(s[Len(s)])
    THEN TrimRight(SubSeq(s, 1, Len(s) - 1))
    ELSE s

TrimSpace(s) == TrimRight(TrimLeft(s))

HasNL(s) == \E i \in DOMAIN s : s[i] = "\n"

FirstNL(s) == CHOOSE i \in DOMAIN s : s[i] = "\n" /\ \A j \in 1..(i - 1) : s[j] # "\n"

\* strings.Split(s, "\n"): always at least one piece, empty pieces kept.
RECURSIVE Split(_)
Split(s) ==
    IF ~HasNL(s) THEN <<s>>
    ELSE <<SubSeq(s, 1, FirstNL(s) - 1)>> \o Split(SubSeq(s, FirstNL(s) + 1, Len(s)))

DropCR(s) ==
    IF s # <<>> /\ s[Len(s)] = "\r" THEN SubSeq(s, 1, Len(s) - 1) ELSE s

\* bufio.Scanner with the default ScanLines split function.
RECURSIVE ScanLines(_)
ScanLines(s) ==
    IF s = <<>> THEN <<>>
    ELSE IF ~HasNL(s) THEN <<DropCR(s)>>
    ELSE <<DropCR(SubSeq(s, 1, FirstNL(s) - 1))>>
         \o ScanLines(SubSeq(s, FirstNL(s) + 1, Len(s)))

RECURSIVE DigitsValue(_)
DigitsValue(s) ==
    IF s = <<>> THEN 0
    ELSE 10 * DigitsValue(SubSeq(s, 1, Len(s) - 1)) + DigitVal(s[Len(s)])

\* strconv.Atoi: optional sign, then one or more digits; (0, error) otherwise.
Atoi(s) ==
    LET signed == s # <<>> /\ s[1] \in {"+", "-"}
        body   == IF signed THEN Tail(s) ELSE s
    IN  IF body # <<>> /\ \A i \in DOMAIN body : IsDigit(body[i])
        THEN [ok |-> TRUE,
              val |-> IF signed /\ s[1] = "-" THEN 0 - DigitsValue(body)
                      ELSE DigitsValue(body)]
        ELSE [ok |-> FALSE, val |-> 0]

RetainAlphanumeric(input) ==
    SelectSeq(input, LAMBDA c : IsLetter(c) \/ IsDigit(c))

(***************************************************************************)
(* Errors.  Every error is a record; Nil is the nil error.                 *)
(***************************************************************************)
Nil == [kind |-> "nil"]

ExitError == [kind |-> "exit status 1"]

CommandError(command, cause, output) ==
    [kind |-> "failed to run command", command |-> command,
     cause |-> cause, output |-> output]

Idle == [op |-> "idle"]

(***************************************************************************)
(* Guest command runners.  A process outcome is what exec.Cmd hands back:  *)
(* the exit status with the captured standard output and standard error.   *)
(***************************************************************************)
\* cmd.Output(): standard output only.
Output(proc) == proc.stdout

\* cmd.CombinedOutput(): both streams in one buffer.
CombinedOutput(proc) == proc.stdout \o proc.stderr

PrepareGuestfishCommand(disks, command, write, args) ==
    [option |-> IF write THEN "--rw" ELSE "--ro",
     disks |-> disks, command |-> command, args |-> args]

RunCommandInGuest(path, command, write, proc) ==
    LET out == Output(proc)
    IN  IF ~proc.ok
        THEN [out |-> <<>>, err |-> CommandError(command, ExitError, TrimSpace(out))]
        ELSE [out |-> ToLower(TrimSpace(out)), err |-> Nil]

RunCommandInGuestAllVolumes(disks, command, write, args, proc) ==
    LET out == CombinedOutput(proc)
    IN  IF ~proc.ok
        THEN [out |-> <<>>, err |-> CommandError(command, ExitError, TrimSpace(out))]
        ELSE [out |-> ToLower(out), err |-> Nil]

(***************************************************************************)
(* The guest behind guestfish: two attached disks, their partitions in     *)
(* listing order, and the set of partitions flagged bootable.              *)
(***************************************************************************)
MaxParts == 3

Devices == {1, 2}

PartNums == {1, 2}

Partitions == [dev : Devices, num : PartNums]

DevPrefix == <<"/", "d", "e", "v", "/", "s", "d">>

DevName(d) == DevPrefix \o <<Lower[d]>>

NumText(n) == <<Digits[n + 1]>>

PartName(p) == DevName(p.dev) \o NumText(p.num)

NL == <<"\n">>

ErrText == <<"e", "r", "r", "\n">>

Failed == [ok |-> FALSE, stdout |-> <<>>, stderr |-> ErrText]

Answer(text) == [ok |-> TRUE, stdout |-> text \o NL, stderr |-> <<>>]

RECURSIVE JoinLines(_)
JoinLines(lines) ==
    IF lines = <<>> THEN <<>> ELSE Head(lines) \o NL \o JoinLines(Tail(lines))

Listings ==
    {l \in UNION {[1..n -> Partitions] : n \in 0..MaxParts} :
        \A i, j \in DOMAIN l : i # j => l[i] # l[j]}

Disks == <<"disk0.img", "disk1.img">>

Guests ==
    {[disks |-> Disks, parts |-> l, boot |-> b] :
        l \in Listings, b \in SUBSET Partitions}

\* guestfish answering one command against guest g.
Guestfish(g, command, args) ==
    LET listed == Range(g.parts)
    IN  CASE command = "list-partitions" ->
               Answer(TrimRight(JoinLines([i \in DOMAIN g.parts |-> PartName(g.parts[i])])))
          [] command = "part-to-dev" ->
               IF \E p \in listed : PartName(p) = args[1]
               THEN Answer(DevName((CHOOSE p \in listed : PartName(p) = args[1]).dev))
               ELSE Failed
          [] command = "part-to-partnum" ->
               IF \E p \in listed : PartName(p) = args[1]
               THEN Answer(NumText((CHOOSE p \in listed : PartName(p) = args[1]).num))
               ELSE Failed
          [] command = "part-get-bootable" ->
               IF \E p \in listed : DevName(p.dev) = args[1] /\ NumText(p.num) = args[2]
               THEN Answer(IF \E p \in listed \cap g.boot :
                                 DevName(p.dev) = args[1] /\ NumText(p.num) = args[2]
                           THEN <<"t", "r", "u", "e">>
                           ELSE <<"f", "a", "l", "s", "e">>)
               ELSE Failed
          [] command = "device-index" ->
               IF \E d \in Devices : DevName(d) = args[1]
               THEN Answer(NumText((CHOOSE d \in Devices : DevName(d) = args[1]) - 1))
               ELSE Failed
          [] OTHER -> Failed

\* The process run for the (Len(log)+1)-th command of a call: it exits
\* non-zero when that position is the injected fault, else guestfish answers.
Exec(g, failAt, log, command, args) ==
    IF Len(log) + 1 = failAt THEN Failed ELSE Guestfish(g, command, args)

\* One RunCommandInGuestAllVolumes call issued from a resolver, with the
\* command appended to the call's command log.
Issue(g, failAt, log, command, args) ==
    LET proc == Exec(g, failAt, log, command, args)
        r    == RunCommandInGuestAllVolumes(g.disks, command, FALSE, args, proc)
    IN  [out |-> r.out, err |-> r.err,
         log |-> Append(log, [cmd |-> PrepareGuestfishCommand(g.disks, command, FALSE, args),
                              ok |-> proc.ok])]

(***************************************************************************)
(* GetBootableVolumeIndex.                                                 *)
(***************************************************************************)
NotFoundError == [kind |-> "bootable volume not found"]

AtoiError == [kind |-> "strconv.Atoi: invalid syntax"]

Abort(r) == [done |-> TRUE, ret |-> -1, err |-> r.err, log |-> r.log]

\* A faulty variant of IsBootable: the flag is compared without trimming.
IsBootableUntrimmed(bootable) == bootable = <<"t", "r", "u", "e">>

IsBootable(bootable) == TrimSpace(bootable) = <<"t", "r", "u", "e">>

\* A faulty variant of BootStep: it carries on after a failed part-to-partnum.
BootStepIgnoringFailure(g, failAt, log, partition) ==
    LET dev == Issue(g, failAt, log, "part-to-dev", <<TrimSpace(partition)>>)
        num == Issue(g, failAt, dev.log, "part-to-partnum", <<TrimSpace(partition)>>)
        boot == Issue(g, failAt, num.log, "part-get-bootable",
                      <<TrimSpace(dev.out), TrimSpace(num.out)>>)
    IN  IF dev.err # Nil THEN Abort(dev)
        ELSE IF boot.err # Nil THEN Abort(boot)
        ELSE [done |-> FALSE, ret |-> -1, err |-> Nil, log |-> boot.log]

\* The body of the loop over the partitions: done says the call returned.
BootStep(g, failAt, log, partition) ==
    LET dev == Issue(g, failAt, log, "part-to-dev", <<TrimSpace(partition)>>)
    IN  IF dev.err # Nil THEN Abort(dev)
        ELSE
        LET num == Issue(g, failAt, dev.log, "part-to-partnum", <<TrimSpace(partition)>>)
        IN  IF num.err # Nil THEN Abort(num)
            ELSE
            LET boot == Issue(g, failAt, num.log, "part-get-bootable",
                              <<TrimSpace(dev.out), TrimSpace(num.out)>>)
            IN  IF boot.err # Nil THEN Abort(boot)
                ELSE IF IsBootable(boot.out)
                THEN LET index == Issue(g, failAt, boot.log, "device-index",
                                        <<TrimSpace(dev.out)>>)
                         n == Atoi(TrimSpace(index.out))
                     IN  IF index.err # Nil THEN Abort(index)
                         ELSE [done |-> TRUE, ret |-> n.val,
                               err |-> IF n.ok THEN Nil ELSE AtoiError,
                               log |-> index.log]
                ELSE [done |-> FALSE, ret |-> -1, err |-> Nil, log |-> boot.log]

RECURSIVE BootLoop(_, _, _, _)
BootLoop(g, failAt, log, partitions) ==
    IF partitions = <<>>
    THEN [ret |-> -1, err |-> NotFoundError, log |-> log]
    ELSE LET r == BootStep(g, failAt, log, Head(partitions))
         IN  IF r.done THEN [ret |-> r.ret, err |-> r.err, log |-> r.log]
             ELSE BootLoop(g, failAt, r.log, Tail(partitions))

GetBootableVolumeIndex(g, failAt) ==
    LET list == Issue(g, failAt, <<>>, "list-partitions", <<>>)
    IN  IF list.err # Nil
        THEN [ret |-> -1,
              err |-> CommandError("list-partitions", list.err, TrimSpace(list.out)),
              log |-> list.log]
        ELSE BootLoop(g, failAt, list.log, Split(TrimSpace(list.out)))

(***************************************************************************)
(* CheckForLVM.  The two process outcomes are those of inspect-os and lvs. *)
(***************************************************************************)
LVMNotFound(lvs) == [kind |-> "LVM not found", listing |-> lvs, length |-> Len(lvs)]

Contains(list, x) == \E i \in DOMAIN list : list[i] = x

\* A faulty variant of CheckForLVM: the OS path is used without trimming.
CheckForLVMUntrimmed(disks, osProc, lvsProc) ==
    LET os  == RunCommandInGuestAllVolumes(disks, "inspect-os", FALSE, <<>>, osProc)
        lvs == RunCommandInGuestAllVolumes(disks, "lvs", FALSE, <<>>, lvsProc)
    IN  IF os.err # Nil
        THEN [out |-> <<>>, err |-> CommandError("inspect-os", os.err, TrimSpace(os.out)),
              issued |-> <<"inspect-os">>]
        ELSE IF lvs.err # Nil
        THEN [out |-> <<>>, err |-> CommandError("lvs", lvs.err, TrimSpace(lvs.out)),
              issued |-> <<"inspect-os", "lvs">>]
        ELSE IF Contains(Split(lvs.out), os.out)
        THEN [out |-> os.out, err |-> Nil, issued |-> <<"inspect-os", "lvs">>]
        ELSE [out |-> <<>>, err |-> LVMNotFound(Split(lvs.out)),
              issued |-> <<"inspect-os", "lvs">>]

CheckForLVM(disks, osProc, lvsProc) ==
    LET os  == RunCommandInGuestAllVolumes(disks, "inspect-os", FALSE, <<>>, osProc)
        lvs == RunCommandInGuestAllVolumes(disks, "lvs", FALSE, <<>>, lvsProc)
    IN  IF os.err # Nil
        THEN [out |-> <<>>, err |-> CommandError("inspect-os", os.err, TrimSpace(os.out)),
              issued |-> <<"inspect-os">>]
        ELSE IF lvs.err # Nil
        THEN [out |-> <<>>, err |-> CommandError("lvs", lvs.err, TrimSpace(lvs.out)),
              issued |-> <<"inspect-os", "lvs">>]
        ELSE IF Contains(Split(lvs.out), TrimSpace(os.out))
        THEN [out |-> TrimSpace(os.out), err |-> Nil, issued |-> <<"inspect-os", "lvs">>]
        ELSE [out |-> <<>>, err |-> LVMNotFound(Split(lvs.out)),
              issued |-> <<"inspect-os", "lvs">>]

(***************************************************************************)
(* Specification SpecGuest: one call of a guest operation on drawn inputs. *)
(***************************************************************************)
MaxLVs == 2

\* Every command a call can issue: the listing, then four per partition.
FaultPositions == 0..(1 + 4 * MaxParts)

VgRoot == <<"/", "d", "e", "v", "/", "v", "g", "/", "r", "o", "o", "t">>

VgSwap == <<"/", "d", "e", "v", "/", "v", "g", "/", "s", "w", "a", "p">>

VgHome == <<"/", "d", "e", "v", "/", "V", "G", "/", "H", "o", "m", "e">>

LVNames == {VgRoot, VgSwap, VgHome}

OsOutputs ==
    {VgRoot \o NL, VgHome \o NL, <<" ">> \o VgSwap \o <<" ", "\n">>,
     PartName([dev |-> 1, num |-> 1]) \o NL,
     PartName([dev |-> 1, num |-> 1]) \o NL \o VgRoot \o NL}

LvsOutputs ==
    {JoinLines(l) : l \in UNION {[1..n -> LVNames] : n \in 0..MaxLVs}}

RawOutputs ==
    {<<>>, <<"t", "r", "u", "e", "\n">>, <<" ", "T", "r", "u", "e">>,
     <<"0">>, <<"\n", "/", "D", "e", "v", "\t">>}

Procs(outputs) ==
    {[ok |-> TRUE, stdout |-> o, stderr |-> <<>>] : o \in outputs}
    \cup {[ok |-> FALSE, stdout |-> o, stderr |-> ErrText] : o \in outputs}

GuestInputs ==
    {[op |-> "GetBootableVolumeIndex", stage |-> "input", g |-> g, failAt |-> f] :
        g \in Guests, f \in FaultPositions}
    \cup {[op |-> "CheckForLVM", stage |-> "input", osProc |-> o, lvsProc |-> l] :
        o \in Procs(OsOutputs), l \in Procs(LvsOutputs)}
    \cup {[op |-> r, stage |-> "input", proc |-> p] :
        r \in {"RunCommandInGuest", "RunCommandInGuestAllVolumes"},
        p \in Procs(RawOutputs)}

InitGuest ==
    /\ call \in GuestInputs
    /\ ntfs = Idle
    /\ timings = Idle
    /\ conv = Idle
    /\ runs = Idle
    /\ last = Idle
    /\ appended = <<>>

CallGetBootableVolumeIndex ==
    /\ call.stage = "input" /\ call.op = "GetBootableVolumeIndex"
    /\ call' = [op |-> call.op, stage |-> "done", g |-> call.g, failAt |-> call.failAt,
                res |-> GetBootableVolumeIndex(call.g, call.failAt)]
    /\ UNCHANGED <<ntfs, timings, conv, runs, last, appended>>

CallCheckForLVM ==
    /\ call.stage = "input" /\ call.op = "CheckForLVM"
    /\ call' = [op |-> call.op, stage |-> "done",
                osProc |-> call.osProc, lvsProc |-> call.lvsProc,
                res |-> CheckForLVM(Disks, call.osProc, call.lvsProc)]
    /\ UNCHANGED <<ntfs, timings, conv, runs, last, appended>>

CallRunCommandInGuest ==
    /\ call.stage = "input" /\ call.op = "RunCommandInGuest"
    /\ call' = [op |-> call.op, stage |-> "done", proc |-> call.proc,
                captured |-> Output(call.proc),
                res |-> RunCommandInGuest(Disks[1], "inspect-os", FALSE, call.proc)]
    /\ UNCHANGED <<ntfs, timings, conv, runs, last, appended>>

CallRunCommandInGuestAllVolumes ==
    /\ call.stage = "input" /\ call.op = "RunCommandInGuestAllVolumes"
    /\ call' = [op |-> call.op, stage |-> "done", proc |-> call.proc,
                captured |-> CombinedOutput(call.proc),
                res |-> RunCommandInGuestAllVolumes(Disks, "inspect-os", FALSE, <<>>,
                                                    call.proc)]
    /\ UNCHANGED <<ntfs, timings, conv, runs, last, appended>>

NextGuest ==
    \/ CallGetBootableVolumeIndex
    \/ CallCheckForLVM
    \/ CallRunCommandInGuest
    \/ CallRunCommandInGuestAllVolumes

SpecGuest == InitGuest /\ [][NextGuest]_vars

(***************************************************************************)
(* Claims checked under SpecGuest.                                         *)
(***************************************************************************)
BootDone == call.op = "GetBootableVolumeIndex" /\ call.stage = "done"

NoCommandFailed == \A i \in DOMAIN call.res.log : call.res.log[i].ok

BootableAt == {i \in DOMAIN call.g.parts : call.g.parts[i] \in call.g.boot}

FirstBootable == CHOOSE i \in BootableAt : \A j \in BootableAt : i <= j

\* C1: when no guest command fails, GetBootableVolumeIndex returns the
\* device index of the device owning the first partition, in listing order,
\* whose bootable flag is true; when no listed partition is bootable it
\* returns -1 with the 'bootable volume not found' error.
C1_FirstBootableIndex ==
    (BootDone /\ NoCommandFailed) =>
        IF BootableAt # {}
        THEN /\ call.res.ret = call.g.parts[FirstBootable].dev - 1
             /\ call.res.err = Nil
        ELSE /\ call.res.ret = -1
             /\ call.res.err = NotFoundError

C1_Witness ==
    /\ BootDone /\ NoCommandFailed
    /\ Len(call.g.parts) = 3
    /\ BootableAt = {2, 3}
    /\ call.g.parts[2].dev = 2 /\ call.g.parts[3].dev = 1
    /\ call.res.ret = 1 /\ call.res.err = Nil

ToolError(entry) == CommandError(entry.cmd.command, ExitError, TrimSpace(ErrText))

\* C7: a failing guest command is the last one GetBootableVolumeIndex
\* issues: the call returns -1 with that command's error, no command follows
\* it, and the failed command was not issued before.
C7_AbortOnFirstFailure ==
    BootDone =>
        \A i \in DOMAIN call.res.log :
            ~call.res.log[i].ok =>
                /\ i = Len(call.res.log)
                /\ call.res.ret = -1
                /\ IF i = 1
                   THEN call.res.err = CommandError("list-partitions",
                                                    ToolError(call.res.log[i]), <<>>)
                   ELSE call.res.err = ToolError(call.res.log[i])
                /\ \A j \in 1..(i - 1) : call.res.log[j].cmd # call.res.log[i].cmd

C7_Witness ==
    /\ BootDone
    /\ Len(call.res.log) = 6
    /\ ~call.res.log[6].ok
    /\ call.res.log[6].cmd.command = "part-to-partnum"
    /\ call.res.ret = -1

LvmDone == call.op = "CheckForLVM" /\ call.stage = "done"

OsPath == TrimSpace(ToLower(CombinedOutput(call.osProc)))

LvsEntries == Split(ToLower(CombinedOutput(call.lvsProc)))

\* C6: with both guest commands succeeding, CheckForLVM returns the trimmed
\* OS path when it is an entry of the newline-split lvs listing, and otherwise
\* fails with the 'LVM not found' error carrying that split listing and its
\* length.
C6_LvmMembership ==
    (LvmDone /\ call.osProc.ok /\ call.lvsProc.ok) =>
        IF \E i \in DOMAIN LvsEntries : LvsEntries[i] = OsPath
        THEN call.res.out = OsPath /\ call.res.err = Nil
        ELSE /\ call.res.out = <<>>
             /\ call.res.err.kind = "LVM not found"
             /\ call.res.err.listing = LvsEntries
             /\ call.res.err.length = Len(LvsEntries)

C6_Witness ==
    /\ LvmDone /\ call.osProc.ok /\ call.lvsProc.ok
    /\ Len(LvsEntries) = 3
    /\ LvsEntries[2] = VgRoot
    /\ call.res.out = VgRoot /\ call.res.err = Nil

RunnerDone ==
    /\ call.op \in {"RunCommandInGuest", "RunCommandInGuestAllVolumes"}
    /\ call.stage = "done"

\* C9: on a zero exit every guest command runner returns the captured output
\* lower-cased and trimmed; on a non-zero exit it returns an empty result and
\* an error carrying the command, the exit error and the trimmed raw output.
C9_RunnerNormalises ==
    RunnerDone =>
        IF call.proc.ok
        THEN /\ call.res.out = ToLower(TrimSpace(call.captured))
             /\ call.res.err = Nil
        ELSE /\ call.res.out = <<>>
             /\ call.res.err = CommandError("inspect-os", ExitError,
                                            TrimSpace(call.captured))

(***************************************************************************)
(* GetPartitions and NTFSFix.  lsblk is a process outcome; outcomes[i]     *)
(* says whether the i-th ntfsfix run of the call exits zero.               *)
(***************************************************************************)
DevDir == <<"/", "d", "e", "v", "/">>

RECURSIVE KeepPartitions(_, _)
KeepPartitions(lines, disk) ==
    IF lines = <<>> THEN <<>>
    ELSE LET line == TrimSpace(Head(lines))
             rest == KeepPartitions(Tail(lines), disk)
         IN  IF line # <<>> /\ line # disk
             THEN <<DevDir \o RetainAlphanumeric(line)>> \o rest
             ELSE rest

GetPartitions(disk, lsblk) ==
    IF ~lsblk.ok
    THEN [partitions |-> <<>>, err |-> [kind |-> "failed to execute lsblk"]]
    ELSE [partitions |-> KeepPartitions(ScanLines(lsblk.stdout), disk), err |-> Nil]

Attempts(targets, outcomes) ==
    [i \in DOMAIN targets |-> [partition |-> targets[i], ok |-> outcomes[i]]]

\* A faulty variant of NTFSFix: it returns an error at the first failed repair.
NTFSFixStoppingAtFailure(path, lsblk, outcomes) ==
    LET got     == GetPartitions(path, lsblk)
        targets == SelectSeq(got.partitions, LAMBDA p : p # path)
        all     == Attempts(targets, outcomes)
        failing == {i \in DOMAIN all : ~all[i].ok}
        stop    == IF failing = {} THEN Len(all)
                   ELSE CHOOSE i \in failing : \A j \in failing : i <= j
    IN  IF got.err # Nil
        THEN [err |-> [kind |-> "failed to get partitions", cause |-> got.err],
              attempts |-> <<>>]
        ELSE [err |-> IF failing = {} THEN Nil ELSE [kind |-> "ntfsfix failed"],
              attempts |-> SubSeq(all, 1, stop)]

\* A faulty variant of NTFSFix: it does not skip the disk's own entry.
NTFSFixNoSkip(path, lsblk, outcomes) ==
    LET got == GetPartitions(path, lsblk)
    IN  IF got.err # Nil
        THEN [err |-> [kind |-> "failed to get partitions", cause |-> got.err],
              attempts |-> <<>>]
        ELSE [err |-> Nil,
              attempts |-> Attempts(got.partitions, outcomes)]

NTFSFix(path, lsblk, outcomes) ==
    LET got     == GetPartitions(path, lsblk)
        targets == SelectSeq(got.partitions, LAMBDA p : p # path)
    IN  IF got.err # Nil
        THEN [err |-> [kind |-> "failed to get partitions", cause |-> got.err],
              attempts |-> <<>>]
        ELSE [err |-> Nil, attempts |-> Attempts(targets, outcomes)]

(***************************************************************************)
(* Specification SpecNTFS: one NTFSFix call on a drawn disk and listing.   *)
(***************************************************************************)
MaxLines == 3

Sda == <<"s", "d", "a">>

DiskPaths == {DevDir \o Sda, Sda}

LsblkLines ==
    {Sda, <<"|", "-">> \o Sda \o <<"1">>, <<"'", "-">> \o Sda \o <<"2">>, <<" ">>}

LsblkOutcomes ==
    {[ok |-> TRUE, stdout |-> JoinLines(l)] :
        l \in UNION {[1..n -> LsblkLines] : n \in 0..MaxLines}}
    \cup {[ok |-> FALSE, stdout |-> <<>>]}

NtfsInputs ==
    {[op |-> "NTFSFix", stage |-> "input", path |-> d, lsblk |-> o, outcomes |-> r] :
        d \in DiskPaths, o \in LsblkOutcomes, r \in [1..MaxLines -> BOOLEAN]}

InitNTFS ==
    /\ ntfs \in NtfsInputs
    /\ call = Idle
    /\ timings = Idle
    /\ conv = Idle
    /\ runs = Idle
    /\ last = Idle
    /\ appended = <<>>

CallNTFSFix ==
    /\ ntfs.stage = "input"
    /\ ntfs' = [ntfs EXCEPT !.stage = "done"]
               @@ [res |-> NTFSFix(ntfs.path, ntfs.lsblk, ntfs.outcomes)]
    /\ UNCHANGED <<call, timings, conv, runs, last, appended>>

NextNTFS == CallNTFSFix

SpecNTFS == InitNTFS /\ [][NextNTFS]_vars

NtfsDone == ntfs.op = "NTFSFix" /\ ntfs.stage = "done"

RECURSIVE BaseName(_)
BaseName(path) ==
    IF \E i \in DOMAIN path : path[i] = "/"
    THEN BaseName(Tail(path))
    ELSE path

\* The names lsblk reported, in order, blank lines and the disk itself left out.
Reported ==
    SelectSeq([i \in DOMAIN ScanLines(ntfs.lsblk.stdout) |->
                   RetainAlphanumeric(ScanLines(ntfs.lsblk.stdout)[i])],
              LAMBDA n : n # <<>> /\ n # BaseName(ntfs.path))

\* C3: with the listing obtained, NTFSFix runs ntfsfix once per reported
\* partition, in listing order, never on the disk's own entry, and a failed
\* run does not stop the runs on the later partitions.
C3_AttemptsEveryPartition ==
    (NtfsDone /\ ntfs.lsblk.ok) =>
        /\ Len(ntfs.res.attempts) = Len(Reported)
        /\ \A i \in DOMAIN Reported :
               /\ ntfs.res.attempts[i].partition = DevDir \o Reported[i]
               /\ ntfs.res.attempts[i].ok = ntfs.outcomes[i]

C3_Witness ==
    /\ NtfsDone /\ ntfs.lsblk.ok
    /\ ntfs.path = DevDir \o Sda
    /\ Len(ScanLines(ntfs.lsblk.stdout)) = 3
    /\ ScanLines(ntfs.lsblk.stdout)[1] = Sda
    /\ Len(ntfs.res.attempts) = 2
    /\ ntfs.res.attempts[1] = [partition |-> DevDir \o Sda \o <<"1">>, ok |-> FALSE]
    /\ ntfs.res.attempts[2] = [partition |-> DevDir \o Sda \o <<"2">>, ok |-> TRUE]

(***************************************************************************)
(* The timing record, ConvertDisk with its driver staging,                 *)
(* PerformIncrementalCopy and ShowSummary.  Durations are in seconds.      *)
(***************************************************************************)
TimingResult == [FirstCopyTime |-> 0, IncrementalCopies |-> <<>>, TotalTime |-> 0]

DownloadOutcomes == {"ok", "get error", "bad status", "create error", "copy error"}

\* "not started": the context was already cancelled when cmd.Run was called.
ToolOutcomes == {"ok", "exit error", "cancelled", "not started"}

FirstDurations == {10, 20}

IncrDurations == {1, 2, 3}

\* downloadFile(url, "/tmp/virtio.iso"): file says whether the path exists.
DownloadFile(file, outcome) ==
    CASE outcome = "get error" ->
           [file |-> file, err |-> [kind |-> "failed to download file"]]
      [] outcome = "bad status" ->
           [file |-> file, err |-> [kind |-> "bad status"]]
      [] outcome = "create error" ->
           [file |-> file, err |-> [kind |-> "failed to create file"]]
      [] outcome = "copy error" ->
           [file |-> TRUE, err |-> [kind |-> "io.Copy"]]
      [] OTHER ->
           [file |-> TRUE, err |-> Nil]

\* A faulty variant of DeferredRemove: the file is removed on success only.
RemoveOnSuccessOnly(file, tool) == IF tool = "ok" THEN FALSE ELSE file

\* defer os.Remove("/tmp/virtio.iso"): runs on every return after staging.
DeferredRemove(file, tool) == FALSE

ConvertDiskResult(c, t, isWindows, dl, tool, d) ==
    LET got     == DownloadFile(c.file, dl)
        started == tool # "not started"
    IN  IF isWindows /\ got.err # Nil
        THEN [conv    |-> [c EXCEPT !.file = got.file],
              timings |-> t,
              last    |-> [op |-> "ConvertDisk", isWindows |-> isWindows,
                           events |-> <<"download">>, download |-> dl, err |-> got.err]]
        ELSE [conv    |-> [file |-> IF isWindows THEN DeferredRemove(got.file, tool)
                                    ELSE c.file,
                           virtioWin |-> c.virtioWin \/ isWindows,
                           backend |-> TRUE],
              timings |-> IF tool = "ok" THEN [t EXCEPT !.FirstCopyTime = d] ELSE t,
              last    |-> [op |-> "ConvertDisk", isWindows |-> isWindows,
                           events |->
                               (IF isWindows THEN <<"download", "setenv VIRTIO_WIN">>
                                ELSE <<>>)
                               \o <<"setenv LIBGUESTFS_BACKEND">>
                               \o (IF started THEN <<"virt-v2v-in-place">> ELSE <<>>)
                               \o (IF isWindows THEN <<"remove">> ELSE <<>>),
                           download |-> IF isWindows THEN dl ELSE "none",
                           err |-> IF tool = "ok" THEN Nil
                                   ELSE [kind |-> "conversion failed", cause |-> tool]]]

RECURSIVE SumLoop(_, _)
SumLoop(total, copies) ==
    IF copies = <<>> THEN total ELSE SumLoop(total + Head(copies), Tail(copies))

\* A faulty variant of SummaryTotal: it adds to the stored total instead of
\* starting again from the first copy time.
SummaryTotalAccumulating(t) ==
    SumLoop(t.TotalTime + t.FirstCopyTime, t.IncrementalCopies)

\* The total ShowSummary stores: the first copy time, then each incremental
\* copy added in slice order.
SummaryTotal(t) == SumLoop(t.FirstCopyTime, t.IncrementalCopies)

(***************************************************************************)
(* Specification Spec: one orchestration run using the timing record.      *)
(***************************************************************************)
MaxIncr == 3

MaxSummaries == 2

Init ==
    /\ timings = TimingResult
    /\ conv = [file |-> FALSE, virtioWin |-> FALSE, backend |-> FALSE]
    /\ last = [op |-> "none", summaries |-> 0]
    /\ appended = <<>>
    /\ call = Idle
    /\ ntfs = Idle
    /\ runs = Idle

ConvertDisk ==
    \E isWindows \in BOOLEAN :
    \E dl \in IF isWindows THEN DownloadOutcomes ELSE {"ok"} :
    \E tool \in IF dl = "ok" THEN ToolOutcomes ELSE {"not started"} :
    \E d \in IF tool = "ok" THEN FirstDurations ELSE {0} :
        LET r == ConvertDiskResult(conv, timings, isWindows, dl, tool, d)
        IN  /\ conv' = r.conv
            /\ timings' = r.timings
            /\ last' = r.last @@ [summaries |-> last.summaries]
            /\ UNCHANGED <<appended, call, ntfs, runs>>

PerformIncrementalCopy ==
    \E duration \in IncrDurations :
        /\ Len(timings.IncrementalCopies) < MaxIncr
        /\ timings' = [timings EXCEPT
                          !.IncrementalCopies = Append(@, duration)]
        /\ appended' = Append(appended, duration)
        /\ last' = [op |-> "PerformIncrementalCopy", summaries |-> last.summaries]
        /\ UNCHANGED <<conv, call, ntfs, runs>>

ShowSummary ==
    /\ last.summaries < MaxSummaries
    /\ timings' = [timings EXCEPT !.TotalTime = SummaryTotal(timings)]
    /\ last' = [op |-> "ShowSummary", summaries |-> last.summaries + 1,
                before |-> timings.TotalTime]
    /\ UNCHANGED <<conv, appended, call, ntfs, runs>>

Next ==
    \/ ConvertDisk
    \/ PerformIncrementalCopy
    \/ ShowSummary

Spec == Init /\ [][Next]_vars

RECURSIVE SeqSum(_)
SeqSum(q) == IF q = <<>> THEN 0 ELSE q[1] + SeqSum(Tail(q))

\* C4 as stated: in every reachable state total equals firstCopy plus the
\* sum of incrementalCopies, and incrementalCopies is the sequence of the
\* appended durations in append order.
C4_TotalAlways ==
    /\ timings.TotalTime = timings.FirstCopyTime + SeqSum(timings.IncrementalCopies)
    /\ timings.IncrementalCopies = appended

\* C8: right after every ShowSummary, total equals firstCopy plus the sum of
\* all incremental durations appended so far, however many summaries and
\* appends came before.
C8_SummaryTotal ==
    last.op = "ShowSummary" =>
        timings.TotalTime = timings.FirstCopyTime + SeqSum(appended)

C8_Witness ==
    /\ last.op = "ShowSummary"
    /\ last.summaries = 2
    /\ last.before = 15
    /\ timings.FirstCopyTime = 10
    /\ appended = <<2, 3, 1>>
    /\ timings.TotalTime = 16

ToolInvoked == \E i \in DOMAIN last.events : last.events[i] = "virt-v2v-in-place"

\* C10: for a Windows guest the conversion tool runs only after a successful
\* driver download, a failed download fails the call without running the
\* tool, and whenever the tool ran the staged driver file is gone when
\* ConvertDisk returns, whether the tool succeeded, failed or was cancelled.
C10_DriverStaging ==
    (last.op = "ConvertDisk" /\ last.isWindows) =>
        /\ ToolInvoked =>
               /\ last.download = "ok"
               /\ \E i, j \in DOMAIN last.events :
                      /\ i < j
                      /\ last.events[i] = "download"
                      /\ last.events[j] = "virt-v2v-in-place"
               /\ ~conv.file
        /\ last.download # "ok" => (~ToolInvoked /\ last.err # Nil)

C10_Witness ==
    /\ last.op = "ConvertDisk" /\ last.isWindows
    /\ ToolInvoked
    /\ last.err = [kind |-> "conversion failed", cause |-> "cancelled"]
    /\ ~conv.file

(***************************************************************************)
(* Specification SpecConc: two orchestration runs in one process, each     *)
(* doing ConvertDisk, its incremental copies, then ShowSummary, on the     *)
(* package-level timings variable.  Each read and each write of timings is *)
(* one step, so the runs interleave between them.                          *)
(***************************************************************************)
MaxRunIncr == 1

Runs == {"A", "B"}

NewRun ==
    [pc |-> "convert", first |-> 0, copies |-> <<>>, slice |-> <<>>, pending |-> 0,
     i |-> 0, total |-> 0, reported |-> [first |-> 0, copies |-> <<>>, total |-> 0]]

InitConc ==
    /\ timings = TimingResult
    /\ conv = [file |-> FALSE, virtioWin |-> FALSE, backend |-> FALSE]
    /\ runs = [r \in Runs |-> NewRun]
    /\ last = Idle
    /\ appended = <<>>
    /\ call = Idle
    /\ ntfs = Idle

\* ConvertDisk of a non-Windows guest that succeeds after d seconds.
RunConvertDisk(r) ==
    /\ runs[r].pc = "convert"
    /\ \E d \in FirstDurations :
        LET res == ConvertDiskResult(conv, timings, FALSE, "ok", "ok", d)
        IN  /\ conv' = res.conv
            /\ timings' = res.timings
            /\ runs' = [runs EXCEPT ![r].pc = "loop", ![r].first = d]
    /\ UNCHANGED <<last, appended, call, ntfs>>

\* PerformIncrementalCopy, the read of timings.IncrementalCopies by append.
RunAppendLoad(r) ==
    /\ runs[r].pc = "loop"
    /\ Len(runs[r].copies) < MaxRunIncr
    /\ \E duration \in IncrDurations :
        runs' = [runs EXCEPT ![r].pc = "append", ![r].pending = duration,
                             ![r].slice = timings.IncrementalCopies]
    /\ UNCHANGED <<timings, conv, last, appended, call, ntfs>>

\* PerformIncrementalCopy, the store of the appended slice.
RunAppendStore(r) ==
    /\ runs[r].pc = "append"
    /\ timings' = [timings EXCEPT
                      !.IncrementalCopies = Append(runs[r].slice, runs[r].pending)]
    /\ runs' = [runs EXCEPT ![r].pc = "loop",
                            ![r].copies = Append(@, runs[r].pending)]
    /\ UNCHANGED <<conv, last, appended, call, ntfs>>

\* ShowSummary, timings.TotalTime = timings.FirstCopyTime.
RunSummaryReset(r) ==
    /\ runs[r].pc = "loop"
    /\ timings' = [timings EXCEPT !.TotalTime = timings.FirstCopyTime]
    /\ runs' = [runs EXCEPT ![r].pc = "first"]
    /\ UNCHANGED <<conv, last, appended, call, ntfs>>

\* ShowSummary, the first copy time logged and the range expression read.
RunSummaryRange(r) ==
    /\ runs[r].pc = "first"
    /\ runs' = [runs EXCEPT ![r].pc = "sum", ![r].i = 1,
                            ![r].slice = timings.IncrementalCopies,
                            ![r].reported.first = timings.FirstCopyTime]
    /\ UNCHANGED <<timings, conv, last, appended, call, ntfs>>

\* ShowSummary, one iteration: the copy logged and TotalTime read.
RunSummaryLoad(r) ==
    /\ runs[r].pc = "sum"
    /\ runs[r].i <= Len(runs[r].slice)
    /\ runs' = [runs EXCEPT ![r].pc = "add", ![r].total = timings.TotalTime,
                            ![r].reported.copies = Append(@, runs[r].slice[runs[r].i])]
    /\ UNCHANGED <<timings, conv, last, appended, call, ntfs>>

\* ShowSummary, one iteration: TotalTime written back with the copy added.
RunSummaryAdd(r) ==
    /\ runs[r].pc = "add"
    /\ timings' = [timings EXCEPT
                      !.TotalTime = runs[r].total + runs[r].slice[runs[r].i]]
    /\ runs' = [runs EXCEPT ![r].pc = "sum", ![r].i = @ + 1]
    /\ UNCHANGED <<conv, last, appended, call, ntfs>>

\* ShowSummary, the total logged after the loop.
RunSummaryTotal(r) ==
    /\ runs[r].pc = "sum"
    /\ runs[r].i > Len(runs[r].slice)
    /\ runs' = [runs EXCEPT ![r].pc = "done", ![r].reported.total = timings.TotalTime]
    /\ UNCHANGED <<timings, conv, last, appended, call, ntfs>>

NextConc ==
    \E r \in Runs :
        \/ RunConvertDisk(r)
        \/ RunAppendLoad(r)
        \/ RunAppendStore(r)
        \/ RunSummaryReset(r)
        \/ RunSummaryRange(r)
        \/ RunSummaryLoad(r)
        \/ RunSummaryAdd(r)
        \/ RunSummaryTotal(r)

SpecConc == InitConc /\ [][NextConc]_vars

\* C5: when two runs interleave, the summary of each run reports that run's
\* own first copy time, its own incremental durations in order, and their
\* sum.
C5_RunsIsolated ==
    \A r \in Runs :
        runs[r].pc = "done" =>
            /\ runs[r].reported.first = runs[r].first
            /\ runs[r].reported.copies = runs[r].copies
            /\ runs[r].reported.total = runs[r].first + SeqSum(runs[r].copies)

====
